---- MODULE Spec2Model ----
(***************************************************************************)
(* Model of ptwinrm (src/ptwinrm/ptwinrm.py): the WinRM console.           *)
(*                                                                         *)
(* Three specifications share the module:                                  *)
(*   Spec      the console, from the constructed WinRMConsole (line 180)   *)
(*             through mode selection, one-shot execution or the           *)
(*             interactive loop, to the end of the process;                *)
(*   SpecLive  Spec with the interpreter's progress through the loop's     *)
(*             handlers and main's return made fair;                       *)
(*   SpecCred  the credential resolution of main (lines 154-179) against   *)
(*             the keyring, over successive invocations of the program.    *)
(***************************************************************************)
EXTENDS Integers, Sequences, FiniteSets, TLC

VARIABLES
    \* ---- the console (class WinRMConsole and the tail of main) ----
    opt_run,      \* opt['--run']: None, or Some(line)
    mode,         \* the branch main took at line 182
    pc,           \* position of the process in main / repl
    multiline,    \* self.multiline
    prompt_msg,   \* repl's local prompt_msg: None until get_prompt returned
    cmd_line,     \* the line being dispatched (rep's argument)
    result,       \* what run_cmd_line returned: rep's result, get_prompt's r
    cmd_result,   \* what rep returned (main's cmd_result)
    fault,        \* what the session did on the last remote call
    raised,       \* the exception propagating to the enclosing handler
    calls,        \* remote calls issued on the session by the last dispatch
    out,          \* lines printed since the last input event
    toggles,      \* what the Ctrl-T binding printed so far, in order
    code,         \* the process's exit code: None while it runs
    \* ---- credential resolution (main, lines 154-179) ----
    keyring,      \* the secret store: <<service, account>> -> None | Some(value)
    host,         \* opt['<host>']
    opt_user,     \* opt['--user']: None or Some(string)
    opt_password, \* opt['--password']: None or Some(string)
    user,         \* main's local user
    password,     \* main's local password
    session,      \* winrm.Session(host, (user, password)): None until opened
    kr_ops,       \* keyring operations of this invocation, in order
    prompts,      \* prompt() calls of this invocation, in order
    info,         \* lines printed by the resolution of this invocation
    prev,         \* outcome of the previous invocation's resolution
    invocation,   \* number of the current invocation of the program
    mpc           \* position of main within lines 154-179

console_vars == <<opt_run, mode, pc, multiline, prompt_msg, cmd_line, result,
                  cmd_result, fault, raised, calls, out, toggles, code>>
cred_vars == <<keyring, host, opt_user, opt_password, user, password, session,
               kr_ops, prompts, info, prev, invocation, mpc>>
vars == <<console_vars, cred_vars>>

----------------------------------------------------------------------------
\* Bounds of the model.
MaxLen == 3           \* longest input line, in characters
MaxInvocations == 2   \* invocations of the program over one keyring
MaxToggles == 3       \* presses of Ctrl-T in one session

----------------------------------------------------------------------------
\* Python's None and optional values.
None == <<>>
Some(x) == <<x>>

\* Text is a sequence of one-character strings.
Chars == {"a", "b", " ", "\n"}
Whitespace == {" ", "\n", "\t", "\r"}
Lines == UNION {[1..n -> Chars] : n \in 0..MaxLen}

\* str.strip(): leading and trailing whitespace removed.
RECURSIVE LStrip(_)
LStrip(s) ==
    IF s # <<>> /\ Head(s) \in Whitespace THEN LStrip(Tail(s)) ELSE s

RECURSIVE RStrip(_)
RStrip(s) ==
    IF s # <<>> /\ s[Len(s)] \in Whitespace
    THEN RStrip(SubSeq(s, 1, Len(s) - 1))
    ELSE s

\* Mutant: strip(' '), which leaves line breaks in place.
Strip_spaces_only(s) == IF \A i \in 1..Len(s) : s[i] = " " THEN <<>> ELSE s

Strip(s) == RStrip(LStrip(s))

\* str.split(): the maximal runs of non-whitespace characters, in order.
\* Mutant: a call that failed is issued a second time.
Retried(r) ==
    IF r.raised # "none" THEN [r EXCEPT !.calls = r.calls \o r.calls] ELSE r

RECURSIVE Split(_)
Split(s) ==
    LET t == LStrip(s)
    IN  IF t = <<>> THEN <<>>
        ELSE LET stops == {i \in 1..Len(t) : t[i] \in Whitespace}
                 n == IF stops = {} THEN Len(t) + 1
                      ELSE CHOOSE i \in stops : \A j \in stops : i <= j
             IN  <<SubSeq(t, 1, n - 1)>> \o Split(SubSeq(t, n, Len(t)))

\* bytes: sequences of byte values.  'o' 'k' '\n' and the byte 0xff.
StdStreams == { <<>>, <<111, 107, 10>>, <<255>> }
ByteWhitespace == {32, 9, 10, 13}

RECURSIVE BLStrip(_)
BLStrip(b) ==
    IF b # <<>> /\ Head(b) \in ByteWhitespace THEN BLStrip(Tail(b)) ELSE b

RECURSIVE BRStrip(_)
BRStrip(b) ==
    IF b # <<>> /\ b[Len(b)] \in ByteWhitespace
    THEN BRStrip(SubSeq(b, 1, Len(b) - 1))
    ELSE b

BytesStrip(b) == BRStrip(BLStrip(b))

\* bytes.decode(self.encoding): a byte above 0x7f is not decodable
\* (UnicodeDecodeError); the others map to their character.
CharOf(byte) ==
    CASE byte = 111 -> "o"
      [] byte = 107 -> "k"
      [] byte = 10  -> "\n"
      [] byte = 32  -> " "
      [] OTHER      -> "?"

Decodable(b) == \A i \in 1..Len(b) : b[i] < 128
Decode(b) == [i \in 1..Len(b) |-> CharOf(b[i])]

\* winrm.Response: what the remote call returns.
StatusCodes == {0, 3}
Responses == [status_code : StatusCodes, std_out : StdStreams, std_err : StdStreams]

\* What the session does with a call: returns a Response, or raises.
CaughtFaults == {"InvalidCredentialsError", "ConnectionError"}
Faults == CaughtFaults \cup {"WinRMTransportError", "KeyboardInterrupt"}
NoResponse == [status_code |-> 0, std_out |-> <<>>, std_err |-> <<>>]
Outcomes == [fault : {"none"}, response : Responses]
            \cup [fault : Faults, response : {NoResponse}]

\* A printed line: the format and what fills it.
PrintLine(tmpl, n, text, err) == [tmpl |-> tmpl, code |-> n, text |-> text, err |-> err]

\* A remote call on the session.
RunPs(script) == [kind |-> "run_ps", script |-> script, command |-> <<>>, args |-> <<>>]
RunCmd(command, args) == [kind |-> "run_cmd", script |-> <<>>, command |-> command, args |-> args]

----------------------------------------------------------------------------
\* Mutant: __run_cmd_line retries a call that raised.
private_run_cmd_line_retry(line, outcome) ==
    Retried(IF Strip(line) = <<>>
            THEN [ret |-> None, raised |-> "none", calls |-> <<>>]
            ELSE [ret |-> IF outcome.fault = "none" THEN Some(outcome.response) ELSE None,
                  raised |-> outcome.fault,
                  calls |-> << IF \E i \in 1..Len(line) : line[i] = "\n"
                               THEN RunPs(line)
                               ELSE RunCmd(Split(line)[1], Tail(Split(line))) >>])

\* Mutant: the kind of call chosen by the multiline flag, not by the text.
private_run_cmd_line_by_flag(line, outcome) ==
    IF Strip(line) = <<>>
    THEN [ret |-> None, raised |-> "none", calls |-> <<>>]
    ELSE [ret |-> IF outcome.fault = "none" THEN Some(outcome.response) ELSE None,
          raised |-> outcome.fault,
          calls |-> << IF multiline THEN RunPs(line)
                       ELSE RunCmd(Split(line)[1], Tail(Split(line))) >>]

\* WinRMConsole.__run_cmd_line (lines 72-79): what it returns or raises, and
\* the remote calls it issues, when the session answers a call with `outcome`.
private_run_cmd_line(line, outcome) ==
    IF Strip(line) = <<>>
    THEN [ret |-> None, raised |-> "none", calls |-> <<>>]
    ELSE LET call == IF \E i \in 1..Len(line) : line[i] = "\n"
                     THEN RunPs(line)
                     ELSE LET cmd == Split(line) IN RunCmd(cmd[1], Tail(cmd))
         IN  IF outcome.fault = "none"
             THEN [ret |-> Some(outcome.response), raised |-> "none", calls |-> <<call>>]
             ELSE [ret |-> None, raised |-> outcome.fault, calls |-> <<call>>]

\* Mutant: the except clause names InvalidCredentialsError alone.
run_cmd_line_except_credentials_only(r) ==
    IF r.raised = "InvalidCredentialsError"
    THEN [ret |-> None, raised |-> "none", calls |-> r.calls,
          printed |-> <<PrintLine("ERROR: {0}", 0, <<>>, r.raised)>>]
    ELSE [ret |-> r.ret, raised |-> r.raised, calls |-> r.calls,
          printed |-> <<>>]

\* WinRMConsole.run_cmd_line, the except clause (lines 68-70) applied to what
\* __run_cmd_line did.
run_cmd_line_except(r) ==
    IF r.raised \in CaughtFaults
    THEN [ret |-> None, raised |-> "none", calls |-> r.calls,
          printed |-> <<PrintLine("ERROR: {0}", 0, <<>>, r.raised)>>]
    ELSE [ret |-> r.ret, raised |-> r.raised, calls |-> r.calls,
          printed |-> <<>>]

\* WinRMConsole.run_cmd_line (lines 65-70).
run_cmd_line(line, outcome) ==
    run_cmd_line_except(private_run_cmd_line(line, outcome))

\* WinRMConsole.handle_cmd_result (lines 81-90).
handle_cmd_result(res) ==
    IF res = None
    THEN [ret |-> None, raised |-> "none", printed |-> <<>>]
    ELSE LET r == res[1]
             stdout == PrintLine("{0}", 0, Decode(r.std_out), "")
         IN  IF r.status_code # 0
             THEN IF Decodable(r.std_err)
                  THEN [ret |-> res, raised |-> "none",
                        printed |-> <<PrintLine("ERROR ({0}): {1}", r.status_code,
                                                Decode(r.std_err), "")>>]
                  ELSE [ret |-> None, raised |-> "UnicodeDecodeError", printed |-> <<>>]
             ELSE IF ~Decodable(r.std_out)
                  THEN [ret |-> None, raised |-> "UnicodeDecodeError", printed |-> <<>>]
                  ELSE IF r.std_err = <<>>
                  THEN [ret |-> res, raised |-> "none", printed |-> <<stdout>>]
                  ELSE IF Decodable(r.std_err)
                  THEN [ret |-> res, raised |-> "none",
                        printed |-> <<stdout,
                                      PrintLine("ERROR: {0}", 0, Decode(r.std_err), "")>>]
                  ELSE [ret |-> None, raised |-> "UnicodeDecodeError",
                        printed |-> <<stdout>>]

\* Mutant: the key binding switches multiline on instead of toggling it.
toggle_multiline_set(flag) == TRUE

\* WinRMConsole.toggle_multiline (lines 92-94): the new value of the flag.
toggle_multiline(flag) == ~flag

\* WinRMConsole.get_prompt (lines 96-98).
\* The command line of the working-directory query (line 97).
CdLine == <<"c", "d">>

\* Mutant: line 98 guards against r being None and shows a bare ">" prompt.
get_prompt_return_none_tolerated(r) ==
    IF r.raised # "none"
    THEN [ret |-> None, raised |-> r.raised, calls |-> r.calls, printed |-> r.printed]
    ELSE IF r.ret = None
    THEN [ret |-> Some(<<">">>), raised |-> "none", calls |-> r.calls,
          printed |-> r.printed]
    ELSE IF ~Decodable(BytesStrip(r.ret[1].std_out))
    THEN [ret |-> None, raised |-> "UnicodeDecodeError", calls |-> r.calls,
          printed |-> r.printed]
    ELSE [ret |-> Some(Decode(BytesStrip(r.ret[1].std_out)) \o <<">">>),
          raised |-> "none", calls |-> r.calls, printed |-> r.printed]

\* line 98 applied to what run_cmd_line('cd') did: r is None after a caught
\* failure, and r.std_out is then an AttributeError.
get_prompt_return(r) ==
    IF r.raised # "none"
    THEN [ret |-> None, raised |-> r.raised, calls |-> r.calls, printed |-> r.printed]
    ELSE IF r.ret = None
    THEN [ret |-> None, raised |-> "AttributeError", calls |-> r.calls,
          printed |-> r.printed]
    ELSE IF ~Decodable(BytesStrip(r.ret[1].std_out))
    THEN [ret |-> None, raised |-> "UnicodeDecodeError", calls |-> r.calls,
          printed |-> r.printed]
    ELSE [ret |-> Some(Decode(BytesStrip(r.ret[1].std_out)) \o <<">">>),
          raised |-> "none", calls |-> r.calls, printed |-> r.printed]

get_prompt(outcome) == get_prompt_return(run_cmd_line(CdLine, outcome))

\* main, line 182: the truth value of opt['--run'].
RunGiven(run) == run # None /\ run[1] # <<>>

\* main, line 184: the exit code for what rep returned.
ExitCode(cr) == IF cr # None THEN cr[1].status_code ELSE 1

\* What sys.excepthook and the interpreter print for an exception.
Traceback(exc) == PrintLine("Traceback (most recent call last): {0}", 0, <<>>, exc)
Farewell == PrintLine("\nCtrl-C pressed. Bailing out!", 0, <<>>, "")

----------------------------------------------------------------------------
\* The command line and the keyring.

DEFAULT_USER_KEY == "__default_08723efe-242f-11e9-8143-7ff2638e4f3e"
\* Strings an operator may give as a flag or type at a prompt.
Strs == {"", "alice", "s3cret", DEFAULT_USER_KEY}
Hosts == {"srv1", "srv2"}

\* SERVICE_TMPL.format(host=host) (lines 46, 161).
service_name(h) == "winrm:" \o h
Services == {service_name(h) : h \in Hosts}

EmptyKeyring == [k \in Services \X Strs |-> None]

----------------------------------------------------------------------------
\* The console: Spec.

\* The state after WinRMConsole(session, encoding) is constructed (line 180,
\* __init__ lines 52-55), for any --run on the command line.
Init ==
    /\ opt_run \in {None} \cup {Some(l) : l \in Lines}
    /\ mode = "startup"
    /\ pc = "main_182"
    /\ multiline = FALSE
    /\ prompt_msg = None
    /\ cmd_line = <<>>
    /\ result = None
    /\ cmd_result = None
    /\ fault = "none"
    /\ raised = "none"
    /\ calls = <<>>
    /\ out = <<>>
    /\ toggles = <<>>
    /\ code = None
    /\ keyring = EmptyKeyring
    /\ host = "srv1"
    /\ opt_user = Some("alice")
    /\ opt_password = Some("s3cret")
    /\ user = Some("alice")
    /\ password = Some("s3cret")
    /\ session = Some([host |-> "srv1", user |-> "alice", password |-> "s3cret"])
    /\ kr_ops = <<>>
    /\ prompts = <<>>
    /\ info = <<>>
    /\ prev = None
    /\ invocation = 1
    /\ mpc = "console"

\* An exception nothing catches ends the process: the interpreter prints the
\* traceback and exits with code 1.
Uncaught(exc) ==
    /\ pc' = "crashed"
    /\ raised' = exc
    /\ code' = Some(1)

\* main, line 182: `if opt['--run']:`.
SelectMode ==
    /\ pc = "main_182"
    /\ IF RunGiven(opt_run)
       THEN /\ mode' = "oneshot"
            /\ cmd_line' = opt_run[1]
            /\ pc' = "oneshot_dispatch"
       ELSE /\ mode' = "interactive"
            /\ cmd_line' = cmd_line
            /\ pc' = "repl_get_prompt"
    /\ UNCHANGED <<opt_run, multiline, prompt_msg, result, cmd_result, fault,
                   raised, calls, out, code>>
    /\ UNCHANGED toggles
    /\ UNCHANGED cred_vars

\* A user interrupt (SIGINT) arriving before a call prints anything.
Interrupted == [ret |-> None, raised |-> "KeyboardInterrupt", printed |-> <<>>]

\* rep, line 101, called from main (line 183): result = run_cmd_line(cmd_line).
Dispatched(r, o) ==
    /\ result' = r.ret
    /\ calls' = r.calls
    /\ fault' = IF r.calls = <<>> THEN "none" ELSE o.fault

OneShotDispatch ==
    /\ pc = "oneshot_dispatch"
    /\ \E o \in Outcomes : \E r \in {run_cmd_line(cmd_line, o)} :
         /\ Dispatched(r, o)
         /\ IF r.raised = "none"
            THEN /\ out' = out \o r.printed
                 /\ pc' = "oneshot_render"
                 /\ UNCHANGED <<raised, code>>
            ELSE /\ out' = out \o r.printed \o <<Traceback(r.raised)>>
                 /\ Uncaught(r.raised)
    /\ UNCHANGED <<opt_run, mode, multiline, prompt_msg, cmd_line, cmd_result>>
    /\ UNCHANGED toggles
    /\ UNCHANGED cred_vars

\* rep, line 102, called from main: return handle_cmd_result(result).  A user
\* interrupt may arrive instead.
OneShotRender ==
    /\ pc = "oneshot_render"
    /\ \E h \in {handle_cmd_result(result), Interrupted} :
         IF h.raised = "none"
         THEN /\ cmd_result' = h.ret
              /\ out' = out \o h.printed
              /\ pc' = "oneshot_exit"
              /\ UNCHANGED <<raised, code>>
         ELSE /\ cmd_result' = None
              /\ out' = out \o h.printed \o <<Traceback(h.raised)>>
              /\ Uncaught(h.raised)
    /\ UNCHANGED <<opt_run, mode, multiline, prompt_msg, cmd_line, result, fault, calls>>
    /\ UNCHANGED toggles
    /\ UNCHANGED cred_vars

\* main, lines 184-185: sys.exit(code).
OneShotExit ==
    /\ pc = "oneshot_exit"
    /\ code' = Some(ExitCode(cmd_result))
    /\ pc' = "exited"
    /\ UNCHANGED <<opt_run, mode, multiline, prompt_msg, cmd_line, result,
                   cmd_result, fault, raised, calls, out>>
    /\ UNCHANGED toggles
    /\ UNCHANGED cred_vars

\* repl, lines 137-141: the initial working-directory query.
ReplGetPrompt ==
    /\ pc = "repl_get_prompt"
    /\ \E o \in Outcomes : \E g \in {get_prompt(o)} :
         /\ result' = run_cmd_line(CdLine, o).ret
         /\ calls' = g.calls
         /\ fault' = o.fault
         /\ IF g.raised = "none"
            THEN /\ prompt_msg' = g.ret
                 /\ out' = g.printed
                 /\ pc' = "repl_loop"
                 /\ UNCHANGED <<raised, code>>
            ELSE IF g.raised = "KeyboardInterrupt"
            THEN \* not an Exception: line 139 does not catch it
                 /\ prompt_msg' = prompt_msg
                 /\ out' = g.printed \o <<Traceback(g.raised)>>
                 /\ Uncaught(g.raised)
            ELSE /\ prompt_msg' = prompt_msg
                 /\ out' = g.printed \o <<PrintLine("ERROR: {0}", 0, <<>>, g.raised)>>
                 /\ pc' = "repl_returned"
                 /\ UNCHANGED <<raised, code>>
    /\ UNCHANGED <<opt_run, mode, multiline, cmd_line, cmd_result>>
    /\ UNCHANGED toggles
    /\ UNCHANGED cred_vars

\* repl, lines 142-144: the top of the loop calls ppt(prompt_msg, ...), which
\* shows the prompt and waits for input.
ReplPrompt ==
    /\ pc = "repl_loop"
    /\ pc' = "repl_await"
    /\ cmd_line' = <<>>
    /\ result' = None
    /\ cmd_result' = None
    /\ fault' = "none"
    /\ calls' = <<>>
    /\ out' = <<>>
    /\ UNCHANGED <<opt_run, mode, multiline, prompt_msg, raised, code>>
    /\ UNCHANGED toggles
    /\ UNCHANGED cred_vars

\* The Ctrl-T key binding (lines 109-119), while the prompt waits.
ToggleMultiline ==
    /\ pc = "repl_await"
    /\ Len(toggles) < MaxToggles
    /\ multiline' = toggle_multiline(multiline)
    /\ out' = <<PrintLine("Set multiline {0}", 0, <<>>,
                          IF multiline' THEN "ON" ELSE "off")>>
    /\ toggles' = Append(toggles, IF multiline' THEN "ON" ELSE "off")
    /\ UNCHANGED <<opt_run, mode, pc, prompt_msg, cmd_line, result, cmd_result,
                   fault, raised, calls, code>>
    /\ UNCHANGED cred_vars

\* repl, line 144: ppt returns the line the operator entered.
ReplRead ==
    /\ pc = "repl_await"
    /\ \E l \in Lines : cmd_line' = l
    /\ out' = <<>>
    /\ pc' = "repl_dispatch"
    /\ UNCHANGED <<opt_run, mode, multiline, prompt_msg, result, cmd_result,
                   fault, raised, calls, code>>
    /\ UNCHANGED toggles
    /\ UNCHANGED cred_vars

\* repl, line 144: ppt raises EOFError (Ctrl-D) or KeyboardInterrupt (Ctrl-C).
ReplReadInterrupted ==
    /\ pc = "repl_await"
    /\ \E e \in {"EOFError", "KeyboardInterrupt"} : raised' = e
    /\ pc' = "repl_except"
    /\ UNCHANGED <<opt_run, mode, multiline, prompt_msg, cmd_line, result,
                   cmd_result, fault, calls, out, code>>
    /\ UNCHANGED toggles
    /\ UNCHANGED cred_vars

\* rep, line 101, called from repl (line 145).
ReplDispatch ==
    /\ pc = "repl_dispatch"
    /\ \E o \in Outcomes : \E r \in {run_cmd_line(cmd_line, o)} :
         /\ Dispatched(r, o)
         /\ out' = out \o r.printed
         /\ raised' = r.raised
         /\ pc' = IF r.raised = "none" THEN "repl_render" ELSE "repl_except"
    /\ UNCHANGED <<opt_run, mode, multiline, prompt_msg, cmd_line, cmd_result, code>>
    /\ UNCHANGED toggles
    /\ UNCHANGED cred_vars

\* rep, line 102, called from repl.  A user interrupt may arrive instead.
ReplRender ==
    /\ pc = "repl_render"
    /\ \E h \in {handle_cmd_result(result), Interrupted} :
         /\ cmd_result' = IF h.raised = "none" THEN h.ret ELSE None
         /\ out' = out \o h.printed
         /\ raised' = h.raised
         /\ pc' = IF h.raised = "none" THEN "repl_loop" ELSE "repl_except"
    /\ UNCHANGED <<opt_run, mode, multiline, prompt_msg, cmd_line, result, fault,
                   calls, code>>
    /\ UNCHANGED toggles
    /\ UNCHANGED cred_vars

\* Mutant: the bare except prints an `ERROR: ...` line, as line 140 does, and
\* not the traceback of sys.excepthook.
ReplExcept_error_line ==
    /\ pc = "repl_except"
    /\ IF raised \in {"EOFError", "KeyboardInterrupt"}
       THEN /\ out' = out \o <<Farewell>>
            /\ pc' = "repl_returned"
       ELSE /\ out' = out \o <<PrintLine("ERROR: {0}", 0, <<>>, raised)>>
            /\ pc' = "repl_loop"
    /\ raised' = "none"
    /\ UNCHANGED <<opt_run, mode, multiline, prompt_msg, cmd_line, result,
                   cmd_result, fault, calls, code>>
    /\ UNCHANGED toggles
    /\ UNCHANGED cred_vars

\* Mutant: line 146 names EOFError alone, so an interrupt is handled by the
\* bare except and the loop goes on.
ReplExcept_eof_only ==
    /\ pc = "repl_except"
    /\ IF raised = "EOFError"
       THEN /\ out' = out \o <<Farewell>>
            /\ pc' = "repl_returned"
       ELSE /\ out' = out \o <<Traceback(raised)>>
            /\ pc' = "repl_loop"
    /\ raised' = "none"
    /\ UNCHANGED <<opt_run, mode, multiline, prompt_msg, cmd_line, result,
                   cmd_result, fault, calls, code>>
    /\ UNCHANGED toggles
    /\ UNCHANGED cred_vars

\* Mutant: no bare except (lines 149-150), so any other exception leaves repl
\* and ends the process.
ReplExcept_no_bare_except ==
    /\ pc = "repl_except"
    /\ IF raised \in {"EOFError", "KeyboardInterrupt"}
       THEN /\ out' = out \o <<Farewell>>
            /\ pc' = "repl_returned"
            /\ raised' = "none"
            /\ code' = code
       ELSE /\ out' = out \o <<Traceback(raised)>>
            /\ Uncaught(raised)
    /\ UNCHANGED <<opt_run, mode, multiline, prompt_msg, cmd_line, result,
                   cmd_result, fault, calls>>
    /\ UNCHANGED toggles
    /\ UNCHANGED cred_vars

\* repl, lines 146-150: the handlers of the loop's try.
ReplExcept ==
    /\ pc = "repl_except"
    /\ IF raised \in {"EOFError", "KeyboardInterrupt"}
       THEN /\ out' = out \o <<Farewell>>
            /\ pc' = "repl_returned"
       ELSE /\ out' = out \o <<Traceback(raised)>>
            /\ pc' = "repl_loop"
    /\ raised' = "none"
    /\ UNCHANGED <<opt_run, mode, multiline, prompt_msg, cmd_line, result,
                   cmd_result, fault, calls, code>>
    /\ UNCHANGED toggles
    /\ UNCHANGED cred_vars

\* main, line 187: repl returned, main returns, the process exits with code 0.
MainReturn ==
    /\ pc = "repl_returned"
    /\ pc' = "exited"
    /\ code' = Some(0)
    /\ UNCHANGED <<opt_run, mode, multiline, prompt_msg, cmd_line, result,
                   cmd_result, fault, raised, calls, out>>
    /\ UNCHANGED toggles
    /\ UNCHANGED cred_vars

Next ==
    \/ SelectMode
    \/ OneShotDispatch
    \/ OneShotRender
    \/ OneShotExit
    \/ ReplGetPrompt
    \/ ReplPrompt
    \/ ToggleMultiline
    \/ ReplRead
    \/ ReplReadInterrupted
    \/ ReplDispatch
    \/ ReplRender
    \/ ReplExcept
    \/ MainReturn

Spec == Init /\ [][Next]_vars

\* The console as it runs: the interpreter goes on executing the handlers of
\* the loop (lines 146-150), the jump back to the top of the loop (line 142)
\* and main's return (line 187).  Nothing is assumed of the operator or of
\* the remote host: a read or a remote call may never complete.
SpecLive ==
    /\ Spec
    /\ WF_vars(ReplExcept)
    /\ WF_vars(ReplPrompt)
    /\ WF_vars(MainReturn)

----------------------------------------------------------------------------
\* Credential resolution: SpecCred.

\* A keyring operation, a prompt() call, a printed line of main.
\* A get_password records what it returned in `got`.
KrGet(service, account, got) ==
    [op |-> "get", service |-> service, account |-> account, value |-> "", got |-> got]
KrSet(service, account, value) ==
    [op |-> "set", service |-> service, account |-> account, value |-> value, got |-> None]
Prompt(msg, is_password, entered) ==
    [msg |-> msg, is_password |-> is_password, entered |-> entered]
InfoLine(tmpl, a, b) == [tmpl |-> tmpl, a |-> a, b |-> b]

\* Python's truth value of what keyring.get_password returned: None and the
\* empty string are both false (lines 165, 173).
Truthy(v) == v # None /\ v[1] # ""

\* Mutant: the entered user name is saved under its own name, not under
\* DEFAULT_USER_KEY.
resolve_user_saved_under_name(kr, h, u, entered) ==
    IF u # None
    THEN [user |-> u, keyring |-> kr, kr_ops |-> <<>>, prompts |-> <<>>, info |-> <<>>]
    ELSE IF Truthy(kr[<<service_name(h), DEFAULT_USER_KEY>>])
    THEN [user |-> kr[<<service_name(h), DEFAULT_USER_KEY>>],
          keyring |-> kr,
          kr_ops |-> <<KrGet(service_name(h), DEFAULT_USER_KEY,
                             kr[<<service_name(h), DEFAULT_USER_KEY>>])>>,
          prompts |-> <<>>,
          info |-> <<InfoLine("User from keyring: {}",
                              kr[<<service_name(h), DEFAULT_USER_KEY>>][1], "")>>]
    ELSE [user |-> Some(entered),
          keyring |-> [kr EXCEPT ![<<service_name(h), entered>>] = Some(entered)],
          kr_ops |-> <<KrGet(service_name(h), DEFAULT_USER_KEY,
                             kr[<<service_name(h), DEFAULT_USER_KEY>>]),
                       KrSet(service_name(h), entered, entered)>>,
          prompts |-> <<Prompt("user: ", FALSE, entered)>>,
          info |-> <<InfoLine("Saved new default user {} for host {}", entered, h),
                     InfoLine("User from keyring: {}", entered, "")>>]

\* main, lines 163-169, on keyring kr for host h with u = opt['--user'];
\* `entered` is what the operator types if prompted.
resolve_user(kr, h, u, entered) ==
    IF u # None
    THEN [user |-> u, keyring |-> kr, kr_ops |-> <<>>, prompts |-> <<>>, info |-> <<>>]
    ELSE IF Truthy(kr[<<service_name(h), DEFAULT_USER_KEY>>])
    THEN [user |-> kr[<<service_name(h), DEFAULT_USER_KEY>>],
          keyring |-> kr,
          kr_ops |-> <<KrGet(service_name(h), DEFAULT_USER_KEY,
                             kr[<<service_name(h), DEFAULT_USER_KEY>>])>>,
          prompts |-> <<>>,
          info |-> <<InfoLine("User from keyring: {}",
                              kr[<<service_name(h), DEFAULT_USER_KEY>>][1], "")>>]
    ELSE [user |-> Some(entered),
          keyring |-> [kr EXCEPT ![<<service_name(h), DEFAULT_USER_KEY>>] = Some(entered)],
          kr_ops |-> <<KrGet(service_name(h), DEFAULT_USER_KEY,
                             kr[<<service_name(h), DEFAULT_USER_KEY>>]),
                       KrSet(service_name(h), DEFAULT_USER_KEY, entered)>>,
          prompts |-> <<Prompt("user: ", FALSE, entered)>>,
          info |-> <<InfoLine("Saved new default user {} for host {}", entered, h),
                     InfoLine("User from keyring: {}", entered, "")>>]

\* Mutant: a password given by --password is cached like an entered one.
resolve_password_caches_flag(kr, h, usr, p, entered) ==
    IF p # None
    THEN [password |-> p,
          keyring |-> [kr EXCEPT ![<<service_name(h), usr>>] = p],
          kr_ops |-> <<KrSet(service_name(h), usr, p[1])>>,
          prompts |-> <<>>, info |-> <<>>]
    ELSE IF Truthy(kr[<<service_name(h), usr>>])
    THEN [password |-> kr[<<service_name(h), usr>>],
          keyring |-> kr,
          kr_ops |-> <<KrGet(service_name(h), usr, kr[<<service_name(h), usr>>])>>,
          prompts |-> <<>>,
          info |-> <<InfoLine("Password for user from keyring", "", "")>>]
    ELSE [password |-> Some(entered),
          keyring |-> [kr EXCEPT ![<<service_name(h), usr>>] = Some(entered)],
          kr_ops |-> <<KrGet(service_name(h), usr, kr[<<service_name(h), usr>>]),
                       KrSet(service_name(h), usr, entered)>>,
          prompts |-> <<Prompt("password: ", TRUE, entered)>>,
          info |-> <<InfoLine("Saved new password for user {} for host {}", usr, h),
                     InfoLine("Password for user from keyring", "", "")>>]

\* main, lines 171-177, for the resolved user name usr with
\* p = opt['--password'].
resolve_password(kr, h, usr, p, entered) ==
    IF p # None
    THEN [password |-> p, keyring |-> kr, kr_ops |-> <<>>, prompts |-> <<>>, info |-> <<>>]
    ELSE IF Truthy(kr[<<service_name(h), usr>>])
    THEN [password |-> kr[<<service_name(h), usr>>],
          keyring |-> kr,
          kr_ops |-> <<KrGet(service_name(h), usr, kr[<<service_name(h), usr>>])>>,
          prompts |-> <<>>,
          info |-> <<InfoLine("Password for user from keyring", "", "")>>]
    ELSE [password |-> Some(entered),
          keyring |-> [kr EXCEPT ![<<service_name(h), usr>>] = Some(entered)],
          kr_ops |-> <<KrGet(service_name(h), usr, kr[<<service_name(h), usr>>]),
                       KrSet(service_name(h), usr, entered)>>,
          prompts |-> <<Prompt("password: ", TRUE, entered)>>,
          info |-> <<InfoLine("Saved new password for user {} for host {}", usr, h),
                     InfoLine("Password for user from keyring", "", "")>>]

\* The first invocation of the program, on an empty keyring, before docopt.
InitCred ==
    /\ opt_run = None
    /\ mode = "startup"
    /\ pc = "main_154"
    /\ multiline = FALSE
    /\ prompt_msg = None
    /\ cmd_line = <<>>
    /\ result = None
    /\ cmd_result = None
    /\ fault = "none"
    /\ raised = "none"
    /\ calls = <<>>
    /\ out = <<>>
    /\ toggles = <<>>
    /\ code = None
    /\ keyring = EmptyKeyring
    /\ host = "srv1"
    /\ opt_user = None
    /\ opt_password = None
    /\ user = None
    /\ password = None
    /\ session = None
    /\ kr_ops = <<>>
    /\ prompts = <<>>
    /\ info = <<>>
    /\ prev = None
    /\ invocation = 1
    /\ mpc = "docopt"

\* main, lines 154-161: the command line is parsed.
Docopt ==
    /\ mpc = "docopt"
    /\ host' \in Hosts
    /\ opt_user' \in {None} \cup {Some(x) : x \in Strs}
    /\ opt_password' \in {None} \cup {Some(x) : x \in Strs}
    /\ user' = opt_user'
    /\ password' = opt_password'
    /\ mpc' = "resolve_user"
    /\ UNCHANGED <<keyring, session, kr_ops, prompts, info, prev, invocation>>
    /\ UNCHANGED console_vars

\* main, lines 163-169.
ResolveUser ==
    /\ mpc = "resolve_user"
    /\ \E entered \in Strs :
         \E r \in {resolve_user(keyring, host, user, entered)} :
            /\ user' = r.user
            /\ keyring' = r.keyring
            /\ kr_ops' = kr_ops \o r.kr_ops
            /\ prompts' = prompts \o r.prompts
            /\ info' = info \o r.info
    /\ mpc' = "resolve_password"
    /\ UNCHANGED <<host, opt_user, opt_password, password, session, prev, invocation>>
    /\ UNCHANGED console_vars

\* main, lines 171-177.
ResolvePassword ==
    /\ mpc = "resolve_password"
    /\ \E entered \in Strs :
         \E r \in {resolve_password(keyring, host, user[1], password, entered)} :
            /\ password' = r.password
            /\ keyring' = r.keyring
            /\ kr_ops' = kr_ops \o r.kr_ops
            /\ prompts' = prompts \o r.prompts
            /\ info' = info \o r.info
    /\ mpc' = "open_session"
    /\ UNCHANGED <<host, opt_user, opt_password, user, session, prev, invocation>>
    /\ UNCHANGED console_vars

\* main, lines 179-180: the session is opened with the resolved pair.
OpenSession ==
    /\ mpc = "open_session"
    /\ session' = Some([host |-> host, user |-> user[1], password |-> password[1]])
    /\ mpc' = "console"
    /\ UNCHANGED <<keyring, host, opt_user, opt_password, user, password, kr_ops,
                   prompts, info, prev, invocation>>
    /\ UNCHANGED console_vars

\* The process ends and the program is run again over the same keyring
\* (lines 190-191); prev keeps what the resolution just done came to.
NextInvocation ==
    /\ mpc = "console"
    /\ invocation < MaxInvocations
    /\ invocation' = invocation + 1
    /\ prev' = Some([host |-> host, user |-> user[1], password |-> password[1],
                     explicit |-> (opt_user # None \/ opt_password # None),
                     prompted |-> (prompts # <<>>)])
    /\ opt_user' = None
    /\ opt_password' = None
    /\ user' = None
    /\ password' = None
    /\ session' = None
    /\ kr_ops' = <<>>
    /\ prompts' = <<>>
    /\ info' = <<>>
    /\ mpc' = "docopt"
    /\ UNCHANGED <<keyring, host>>
    /\ UNCHANGED console_vars

NextCred ==
    \/ Docopt
    \/ ResolveUser
    \/ ResolvePassword
    \/ OpenSession
    \/ NextInvocation

SpecCred == InitCred /\ [][NextCred]_vars

----------------------------------------------------------------------------
\* Properties of the credential resolution (checked under SpecCred).

Resolved == mpc \in {"open_session", "console"}
DefaultUserOps ==
    {i \in 1..Len(kr_ops) : /\ kr_ops[i].service = service_name(host)
                            /\ kr_ops[i].account = DEFAULT_USER_KEY}
UserPrompts == {i \in 1..Len(prompts) : prompts[i].msg = "user: "}
PasswordPrompts == {i \in 1..Len(prompts) : prompts[i].msg = "password: "}
Sets == {i \in 1..Len(kr_ops) : kr_ops[i].op = "set"}
Gets == {i \in 1..Len(kr_ops) : kr_ops[i].op = "get"}

\* C3 (as claimed): with --user given, whatever its value, a resolution
\* neither reads nor writes the entry ("winrm:"+host, DEFAULT_USER_KEY) and
\* never prompts for a user name.
C3_ExplicitUserLeavesDefaultEntry ==
    (Resolved /\ opt_user # None) =>
        /\ DefaultUserOps = {}
        /\ UserPrompts = {}

\* C4 (as claimed): with no --user and no cached default user name, a
\* resolution prompts for the user name exactly once, writes the entry
\* ("winrm:"+host, DEFAULT_USER_KEY) exactly once, with the value entered,
\* and uses that value as the user name of the password lookup and of the
\* session.
C4_FreshUserPromptedAndSavedOnce ==
    (Resolved /\ opt_user = None /\ kr_ops # <<>> /\ kr_ops[1].got = None) =>
        /\ Cardinality(UserPrompts) = 1
        /\ Cardinality(DefaultUserOps \cap Sets) = 1
        /\ \A i \in DefaultUserOps \cap Sets : kr_ops[i].value = prompts[1].entered
        /\ user = Some(prompts[1].entered)
        /\ opt_password = None =>
               kr_ops[3] = KrGet(service_name(host), prompts[1].entered, kr_ops[3].got)
        /\ session # None => session[1].user = prompts[1].entered

C4_Witness ==
    /\ mpc = "console"
    /\ opt_user = None
    /\ kr_ops[1] = KrGet(service_name(host), DEFAULT_USER_KEY, None)
    /\ prompts[1] = Prompt("user: ", FALSE, "alice")
    /\ kr_ops[2] = KrSet(service_name(host), DEFAULT_USER_KEY, "alice")
    /\ keyring[<<service_name(host), DEFAULT_USER_KEY>>] = Some("alice")
    /\ session[1].user = "alice"

\* The get_password of the password step: the last read of the invocation.
PasswordGet == CHOOSE i \in Gets : \A j \in Gets : j <= i

\* C5 (as claimed): --password, when given, is used and the store is not
\* accessed for the password; otherwise the store is read at exactly
\* ("winrm:"+host, user); a password cached there is used with no prompt and
\* no write; if there is none the operator is prompted once, masked, and the
\* password entered is written once under that key.
C5_PasswordResolution ==
    Resolved =>
        /\ opt_password # None =>
               /\ password = opt_password
               /\ PasswordPrompts = {}
               /\ \A i \in 1..Len(kr_ops) :
                      i <= 2 /\ kr_ops[i].account = DEFAULT_USER_KEY
        /\ opt_password = None =>
               /\ Gets # {}
               /\ kr_ops[PasswordGet].service = service_name(host)
               /\ kr_ops[PasswordGet].account = user[1]
               /\ kr_ops[PasswordGet].got # None =>
                      /\ password = kr_ops[PasswordGet].got
                      /\ PasswordPrompts = {}
                      /\ PasswordGet = Len(kr_ops)
               /\ kr_ops[PasswordGet].got = None =>
                      /\ Cardinality(PasswordPrompts) = 1
                      /\ prompts[Len(prompts)].is_password
                      /\ password = Some(prompts[Len(prompts)].entered)
                      /\ Len(kr_ops) = PasswordGet + 1
                      /\ kr_ops[Len(kr_ops)] =
                             KrSet(service_name(host), user[1], prompts[Len(prompts)].entered)

\* C6 (as claimed): after a resolution for a host, without flags, that
\* prompted for and saved a value, the next resolution for that host without
\* flags, over the keyring as it was left, prompts for nothing, writes
\* nothing and comes to the same user name and password, whatever was
\* entered at the prompts.
C6_CachedCredentialsStable ==
    (/\ Resolved
     /\ prev # None
     /\ prev[1].host = host
     /\ prev[1].prompted
     /\ ~prev[1].explicit
     /\ opt_user = None
     /\ opt_password = None) =>
        /\ prompts = <<>>
        /\ Sets = {}
        /\ user = Some(prev[1].user)
        /\ password = Some(prev[1].password)

----------------------------------------------------------------------------
\* Properties of the console (checked under Spec).

Blank(line) == \A i \in 1..Len(line) : line[i] \in Whitespace
HasLineBreak(line) == \E i \in 1..Len(line) : line[i] = "\n"
DispatchPcs == {"oneshot_dispatch", "repl_dispatch"}
RenderPcs == {"oneshot_render", "repl_render"}
ReplPcs == {"repl_get_prompt", "repl_loop", "repl_await", "repl_dispatch",
            "repl_render", "repl_except", "repl_returned"}

\* C1 (as claimed): in one-shot mode, a process that ended without a user
\* interrupt has the remote command's status code as its exit code when
\* run_cmd_line produced a result, and 1 when it produced none.
C1_OneShotExitCode ==
    (mode = "oneshot" /\ code # None /\ raised # "KeyboardInterrupt") =>
        /\ result # None => code = Some(result[1].status_code)
        /\ result = None => code = Some(1)

\* The part of C1 that holds: when main reaches sys.exit (line 185), the exit
\* code is the status code of the result produced, and 1 when none was; none
\* is produced exactly for a blank line or a caught failure.
C1_ExitCodeAtSysExit ==
    (mode = "oneshot" /\ pc = "exited") =>
        /\ result # None => code = Some(result[1].status_code)
        /\ result = None => code = Some(1)
        /\ result = None <=> (Blank(cmd_line) \/ fault \in CaughtFaults)

\* C2 (as claimed): whenever --run is present on the command line, the empty
\* command included, main never calls repl: the process is never in one of
\* the interactive states.
C2_RunPresentNeverInteractive ==
    opt_run # None => (mode # "interactive" /\ pc \notin ReplPcs)

\* C7: for every line that is empty or all whitespace (line breaks
\* included), run_cmd_line returns None, raises nothing, prints nothing and
\* issues no remote call.
C7_BlankLineNoCall ==
    [][ (pc \in DispatchPcs /\ Blank(cmd_line)) =>
            /\ result' = None
            /\ calls' = <<>>
            /\ raised' = "none"
            /\ out' = out
            /\ pc' \in RenderPcs ]_vars

C7_Witness ==
    /\ pc = "repl_render"
    /\ cmd_line = <<" ", "\n">>
    /\ result = None
    /\ calls = <<>>

\* The tokens of a line as the claim describes them: its maximal runs of
\* non-whitespace characters, left to right.
TokenStarts(line) ==
    {i \in 1..Len(line) : line[i] \notin Whitespace
                          /\ (i = 1 \/ line[i - 1] \in Whitespace)}
TokenAt(line, i) ==
    SubSeq(line, i,
           CHOOSE j \in i..Len(line) :
               /\ \A m \in i..j : line[m] \notin Whitespace
               /\ (j = Len(line) \/ line[j + 1] \in Whitespace))
Tokens(line) ==
    [k \in 1..Cardinality(TokenStarts(line)) |->
        TokenAt(line, CHOOSE i \in TokenStarts(line) :
                          Cardinality({j \in TokenStarts(line) : j < i}) = k - 1)]

\* C8: for every non-blank line, run_cmd_line issues exactly one remote
\* call, decided by the text alone: run_ps with the whole unmodified line
\* when it holds a line break, otherwise run_cmd with the first token as the
\* command and the remaining tokens, in order, as the args.
C8_OneCallByText ==
    [][ (pc \in DispatchPcs /\ ~Blank(cmd_line)) =>
            /\ Len(calls') = 1
            /\ HasLineBreak(cmd_line) => calls'[1] = RunPs(cmd_line)
            /\ ~HasLineBreak(cmd_line) =>
                   calls'[1] = RunCmd(Tokens(cmd_line)[1], Tail(Tokens(cmd_line))) ]_vars

C8_Witness ==
    /\ pc = "repl_render"
    /\ multiline = TRUE
    /\ cmd_line = <<"a", " ", "b">>
    /\ calls = << RunCmd(<<"a">>, << <<"b">> >>) >>

\* C9: an authentication or connection failure of the remote call is caught
\* in run_cmd_line: one `ERROR: <message>` line is printed, None is returned,
\* nothing is raised, and the loop goes on to the next prompt; any other
\* exception of the remote call leaves run_cmd_line and reaches the caller's
\* handler (repl's try, or the top of the process in one-shot mode).
C9_Caught ==
    (pc \in DispatchPcs /\ fault' \in CaughtFaults) =>
        /\ result' = None
        /\ raised' = "none"
        /\ out' = out \o <<PrintLine("ERROR: {0}", 0, <<>>, fault')>>
        /\ pc' \in RenderPcs
C9_LoopGoesOn ==
    (pc = "repl_render" /\ fault \in CaughtFaults /\ raised' # "KeyboardInterrupt") =>
        /\ pc' = "repl_loop"
        /\ out' = out
C9_NotCaught ==
    (pc \in DispatchPcs /\ fault' \in Faults \ CaughtFaults) =>
        /\ raised' = fault'
        /\ result' = None
        /\ pc' \in {"repl_except", "crashed"}
        /\ \A i \in 1..Len(out') : out'[i].tmpl # "ERROR: {0}"
C9_FailurePolicy ==
    [][C9_Caught /\ C9_LoopGoesOn /\ C9_NotCaught]_vars

C9_Witness ==
    /\ pc = "repl_loop"
    /\ fault = "ConnectionError"
    /\ result = None
    /\ out = <<PrintLine("ERROR: {0}", 0, <<>>, "ConnectionError")>>

\* What the claim says handle_cmd_result prints for a result.
Rendering(res) ==
    IF res = None THEN <<>>
    ELSE IF res[1].status_code # 0
    THEN <<PrintLine("ERROR ({0}): {1}", res[1].status_code, Decode(res[1].std_err), "")>>
    ELSE <<PrintLine("{0}", 0, Decode(res[1].std_out), "")>>
         \o (IF res[1].std_err # <<>>
             THEN <<PrintLine("ERROR: {0}", 0, Decode(res[1].std_err), "")>>
             ELSE <<>>)

\* C10 (as claimed): handle_cmd_result, when no user interrupt cuts it
\* short, prints nothing for None, only `ERROR (<code>): <stderr>` for a
\* non-zero status, and stdout followed by `ERROR: <stderr>` exactly when
\* stderr is non-empty for status 0; and it returns its argument.
C10_RenderByCase ==
    [][ (pc \in RenderPcs /\ raised' # "KeyboardInterrupt") =>
            /\ cmd_result' = result
            /\ \E n \in 0..1 : SubSeq(out', 1, Len(out') - n) = out \o Rendering(result) ]_vars

\* The part of C10 that holds: a rendering that returns has printed the lines
\* of the claim's cases and returns its argument, and stdout is never printed
\* for a non-zero status.
C10_RenderingWhenReturned ==
    [][ (pc \in RenderPcs) =>
            /\ (pc' \in {"oneshot_exit", "repl_loop"}) =>
                   /\ cmd_result' = result
                   /\ out' = out \o Rendering(result)
            /\ (result # None /\ result[1].status_code # 0) =>
                   \A i \in 1..Len(out') : out'[i].tmpl # "{0}" ]_vars

----------------------------------------------------------------------------
\* Properties of the interactive loop (checked under SpecLive).

ReadEnds == {"EOFError", "KeyboardInterrupt"}
LoopPcs == {"repl_loop", "repl_await", "repl_dispatch", "repl_render", "repl_except"}

\* C11: EOFError or KeyboardInterrupt raised while a line is read reaches the
\* handler of line 146 with no line read and no call issued; the handler
\* prints the farewell line and leaves the loop; repl and main return with
\* nothing further read or dispatched and the process exits with code 0,
\* never through an uncaught exception; and this exit does come.
C11_ReadEnd ==
    (pc = "repl_await" /\ raised' \in ReadEnds) =>
        /\ pc' = "repl_except"
        /\ cmd_line' = <<>>
        /\ calls' = <<>>
        /\ out' = out
C11_Farewell ==
    (pc = "repl_except" /\ raised \in ReadEnds) =>
        /\ out' = out \o <<Farewell>>
        /\ pc' = "repl_returned"
        /\ raised' = "none"
        /\ code' = None
        /\ <<cmd_line, calls, result>>' = <<cmd_line, calls, result>>
C11_Return ==
    (pc = "repl_returned") =>
        /\ pc' = "exited"
        /\ code' = Some(0)
        /\ raised' = "none"
        /\ <<cmd_line, calls, result, out>>' = <<cmd_line, calls, result, out>>
C11_EndOfInputExitsCleanly ==
    /\ [][C11_ReadEnd /\ C11_Farewell /\ C11_Return /\ pc # "exited"]_vars
    /\ (pc = "repl_except" /\ raised \in ReadEnds) ~> (pc = "exited" /\ code = Some(0))

C11_Witness ==
    /\ pc = "exited"
    /\ code = Some(0)
    /\ prompt_msg # None
    /\ cmd_line = <<>>
    /\ calls = <<>>
    /\ out = <<Farewell>>

\* C12: in the loop, an exception other than EOFError and KeyboardInterrupt
\* raised by a dispatch or a render reaches the bare except of line 149, which
\* prints the exception and goes back to the top of the loop; the process
\* has no exit code while it is in the loop, the loop is left only through
\* the handler of EOFError and KeyboardInterrupt, and after such an exception
\* the console does come to wait for input again.
C12_Raised ==
    (pc \in {"repl_dispatch", "repl_render"} /\ raised' # "none") => pc' = "repl_except"
C12_Contained ==
    (pc = "repl_except" /\ raised \notin ReadEnds) =>
        /\ out' = out \o <<Traceback(raised)>>
        /\ pc' = "repl_loop"
        /\ raised' = "none"
        /\ code' = None
        /\ <<prompt_msg, multiline>>' = <<prompt_msg, multiline>>
C12_LeftOnlyOnReadEnd ==
    (pc \in LoopPcs /\ pc' \notin LoopPcs) =>
        /\ pc = "repl_except"
        /\ raised \in ReadEnds
        /\ pc' = "repl_returned"
C12_LoopSurvivesExceptions ==
    /\ [](pc \in LoopPcs => code = None)
    /\ [][C12_Raised /\ C12_Contained /\ C12_LeftOnlyOnReadEnd]_vars
    /\ (pc = "repl_except" /\ raised \notin ReadEnds) ~> (pc = "repl_await")

\* A decode failure of the render was printed and the loop went on.
C12_Witness ==
    /\ pc = "repl_loop"
    /\ result # None
    /\ ~Decodable(result[1].std_err)
    /\ out # <<>>
    /\ out[Len(out)] = Traceback("UnicodeDecodeError")

----------------------------------------------------------------------------
\* Properties of the entry to repl (checked under Spec).

\* The working-directory query as the source issues it: run_cmd('cd', []).
CdCall == RunCmd(<<"c", "d">>, <<>>)

\* C13: when the working-directory query made on entry to repl fails (the
\* remote call raises an authentication or connection failure or any other
\* error, or its output cannot be decoded), repl prints an `ERROR: ...` line
\* and returns: prompt_msg is never set, the loop is never entered, no line
\* is read and no remote call other than the query itself is issued.
C13_QueryFailed ==
    (pc = "repl_get_prompt"
     /\ \/ fault' \in Faults \ {"KeyboardInterrupt"}
        \/ (fault' = "none" /\ ~Decodable(BytesStrip(result'[1].std_out)))) =>
        /\ pc' = "repl_returned"
        /\ prompt_msg' = None
        /\ calls' = <<CdCall>>
        /\ out' # <<>>
        /\ out'[Len(out')].tmpl = "ERROR: {0}"
        /\ code' = None
C13_Terminates ==
    (pc = "repl_returned" /\ prompt_msg = None) =>
        /\ pc' = "exited"
        /\ <<calls, cmd_line, out, prompt_msg>>' = <<calls, cmd_line, out, prompt_msg>>
C13_NoLoop ==
    (mode = "interactive" /\ prompt_msg = None) =>
        /\ pc \notin LoopPcs
        /\ cmd_line = <<>>
        /\ calls \in {<<>>, <<CdCall>>}
C13_InitialQueryFailureEndsRepl ==
    /\ []C13_NoLoop
    /\ [][C13_QueryFailed /\ C13_Terminates]_vars

C13_Witness ==
    /\ pc = "exited"
    /\ mode = "interactive"
    /\ fault = "ConnectionError"
    /\ prompt_msg = None
    /\ cmd_line = <<>>
    /\ calls = <<CdCall>>
    /\ out = << PrintLine("ERROR: {0}", 0, <<>>, "ConnectionError"),
                PrintLine("ERROR: {0}", 0, <<>>, "AttributeError") >>

----------------------------------------------------------------------------
\* Properties of the multiline flag (checked under Spec).

Odd(n) == n % 2 = 1
ToggleMessage(flag) == IF flag THEN "ON" ELSE "off"

\* C14: the multiline flag starts off and is on exactly when the number of
\* toggles so far is odd; toggling twice gives the value back; the messages
\* of the key binding alternate ON, off, ON, ... and each names the value the
\* flag has after its toggle; the flag changes only in a step of the key
\* binding, which prints one such message, and never in a dispatch, a render
\* or a handler.
C14_Parity ==
    /\ multiline = Odd(Len(toggles))
    /\ \A i \in 1..Len(toggles) : toggles[i] = ToggleMessage(Odd(i))
    /\ toggle_multiline(toggle_multiline(multiline)) = multiline
C14_OnlyByToggle ==
    /\ (multiline' # multiline \/ toggles' # toggles) =>
           /\ pc = "repl_await" /\ pc' = "repl_await"
           /\ multiline' = ~multiline
           /\ toggles' = Append(toggles, ToggleMessage(multiline'))
           /\ out' = <<PrintLine("Set multiline {0}", 0, <<>>, ToggleMessage(multiline'))>>
           /\ <<cmd_line, result, calls, prompt_msg>>' = <<cmd_line, result, calls, prompt_msg>>
    /\ pc # "repl_await" => multiline' = multiline
C14_ToggleInvolution ==
    /\ []C14_Parity
    /\ [][C14_OnlyByToggle]_vars

\* Three toggles, then a command dispatched: the flag is on.
C14_Witness ==
    /\ pc = "repl_render"
    /\ toggles = <<"ON", "off", "ON">>
    /\ multiline
    /\ Len(calls) = 1

----------------------------------------------------------------------------
\* Properties of the credential resolution's output (checked under SpecCred).

InfoLines(tmpls) == {i \in 1..Len(info) : info[i].tmpl \in tmpls}
UserLines ==
    InfoLines({"Saved new default user {} for host {}", "User from keyring: {}"})
PasswordLines ==
    InfoLines({"Saved new password for user {} for host {}",
               "Password for user from keyring"})

\* C15 (as claimed): a resolution prints exactly one confirmation line for
\* each value it takes from the keyring path (none for a value given by a
\* flag): the `from keyring` line for a cached value, the `Saved new ...`
\* line for a value just entered, never both; it prints at most two lines
\* and writes the keyring at most twice.
C15_OneConfirmationPerValue ==
    Resolved =>
        /\ Cardinality(UserLines) = (IF opt_user = None THEN 1 ELSE 0)
        /\ Cardinality(PasswordLines) = (IF opt_password = None THEN 1 ELSE 0)
        /\ UserPrompts # {} => InfoLines({"User from keyring: {}"}) = {}
        /\ PasswordPrompts # {} => InfoLines({"Password for user from keyring"}) = {}
        /\ Len(info) <= 2
        /\ Cardinality(Sets) <= 2

\* The part of C15 that holds: at most two writes, one `Saved new ...` line
\* per write, and one `from keyring` line per value not given by a flag.
C15_WritesAndLines ==
    Resolved =>
        /\ Cardinality(Sets) <= 2
        /\ Cardinality(InfoLines({"Saved new default user {} for host {}",
                                  "Saved new password for user {} for host {}"}))
               = Cardinality(Sets)
        /\ Cardinality(InfoLines({"User from keyring: {}"}))
               = (IF opt_user = None THEN 1 ELSE 0)
        /\ Cardinality(InfoLines({"Password for user from keyring"}))
               = (IF opt_password = None THEN 1 ELSE 0)
        /\ Len(info) <= 4

----------------------------------------------------------------------------
\* Properties of error reporting (checked under Spec).

\* A rendering of res has bytes to decode that cannot be decoded: stderr for a
\* non-zero status, else stdout, or stderr when it is not empty.
DecodeFails(res) ==
    /\ res # None
    /\ IF res[1].status_code # 0
       THEN ~Decodable(res[1].std_err)
       ELSE ~Decodable(res[1].std_out) \/ ~Decodable(res[1].std_err)

\* C16 (as claimed): when the bytes of a result cannot be decoded,
\* handle_cmd_result still returns the result and raises nothing, so that in
\* one-shot mode the process exits with the remote status code and in
\* interactive mode the loop goes on.
C16_Returns ==
    (pc \in RenderPcs /\ DecodeFails(result) /\ raised' # "KeyboardInterrupt") =>
        /\ cmd_result' = result
        /\ raised' = "none"
        /\ pc' \in {"oneshot_exit", "repl_loop"}
C16_ExitCode ==
    (mode = "oneshot" /\ DecodeFails(result) /\ code # None
     /\ raised # "KeyboardInterrupt") =>
        code = Some(result[1].status_code)
C16_DecodeFailureRecovered ==
    /\ []C16_ExitCode
    /\ [][C16_Returns]_vars

\* The part of C16 that holds: in interactive mode a decode failure of the
\* render reaches the handlers of the loop and the loop goes on.
C16_LoopGoesOn ==
    [][ /\ (pc = "repl_render" /\ DecodeFails(result) /\ raised' # "KeyboardInterrupt") =>
               (pc' = "repl_except" /\ raised' = "UnicodeDecodeError")
        /\ (pc = "repl_except" /\ raised = "UnicodeDecodeError") => pc' = "repl_loop" ]_vars

Tracebacks(lines) == {i \in 1..Len(lines) : lines[i].tmpl = Traceback("").tmpl}
ErrorLines(lines) ==
    {i \in 1..Len(lines) : lines[i].tmpl \in {"ERROR: {0}", "ERROR ({0}): {1}"}}

\* C17 (as claimed): in the loop, whatever fails, the console prints only
\* `ERROR: ...` and `ERROR (<code>): ...` lines for it and never a stack
\* dump.
C17_NeverAStackDump ==
    pc \in LoopPcs => Tracebacks(out) = {}

\* C17 (amended): in the loop, an authentication or connection failure is
\* printed as one `ERROR: ...` line and a non-zero status whose stderr
\* decodes as one `ERROR (<code>): ...` line; every other exception of an
\* iteration (an uncaught error of the remote call, a decode failure of the
\* render) is printed by sys.excepthook as a traceback, with no ERROR line for
\* it, and the loop goes on; a traceback is printed in no other case, and
\* the process does not end in the loop.
C17_CaughtFailure ==
    (pc = "repl_dispatch" /\ fault' \in CaughtFaults) =>
        (out' = <<PrintLine("ERROR: {0}", 0, <<>>, fault')>> /\ pc' = "repl_render")
C17_NonZeroStatus ==
    (pc = "repl_render" /\ pc' = "repl_loop" /\ result # None
     /\ result[1].status_code # 0) =>
        out' = <<PrintLine("ERROR ({0}): {1}", result[1].status_code,
                           Decode(result[1].std_err), "")>>
C17_Unexpected ==
    (pc = "repl_except" /\ raised \notin ReadEnds) =>
        /\ out' = out \o <<Traceback(raised)>>
        /\ ErrorLines(out') = ErrorLines(out)
        /\ pc' = "repl_loop"
C17_TracebackOnlyThen ==
    (pc \in LoopPcs /\ Tracebacks(out') \ Tracebacks(out) # {}) =>
        (pc = "repl_except" /\ raised \notin ReadEnds)
C17_ErrorsAsLinesOrTracebacks ==
    /\ [](pc \in LoopPcs => (code = None /\ pc # "crashed"))
    /\ [][C17_CaughtFailure /\ C17_NonZeroStatus /\ C17_Unexpected
           /\ C17_TracebackOnlyThen]_vars

\* An uncaught error of the remote call was printed as a traceback and the
\* loop went on.
C17_Witness ==
    /\ pc = "repl_loop"
    /\ fault = "WinRMTransportError"
    /\ Len(calls) = 1
    /\ out = <<Traceback("WinRMTransportError")>>
    /\ code = None

\* C18 (as claimed): in interactive mode a user interrupt, wherever it
\* arrives (the initial working-directory query included), is caught: the
\* process goes through the handler of line 146 to a clean return, and never
\* ends through an uncaught exception or with a non-zero exit code.
C18_InterruptAlwaysCaught ==
    (mode = "interactive" /\ (raised = "KeyboardInterrupt" \/ fault = "KeyboardInterrupt")) =>
        /\ pc \in {"repl_except", "repl_returned", "exited"}
        /\ code \in {None, Some(0)}

\* The part of C18 that holds: once the loop is entered, an interrupt that
\* arrives while a line is read, a call is in flight or a result is rendered
\* reaches the handler of line 146.
C18_CaughtInLoop ==
    [][ (pc \in LoopPcs /\ raised' = "KeyboardInterrupt") => pc' = "repl_except" ]_vars

----------------------------------------------------------------------------
\* Properties of the session's remote calls (checked under SpecLive).

\* C19: the remote calls of an interactive session are sequential and the
\* console repeats none: entering repl issues exactly the one query
\* run_cmd('cd', []); a line read is dispatched once, with at most one
\* remote call, and is rendered or handled before the prompt is shown again;
\* no other step issues a call, so a failed call is not retried; the session
\* is never replaced; prompt_msg is set by the query and is the same at
\* every read; and after a connection failure the console does come back to
\* the prompt, where a further line can be read and dispatched.
C19_Calls ==
    /\ pc = "repl_get_prompt" => calls' = <<CdCall>>
    /\ pc = "repl_dispatch" => Len(calls') <= 1
    /\ (mode = "interactive" /\ calls' # calls) =>
           pc \in {"repl_get_prompt", "repl_dispatch", "repl_loop"}
    /\ pc = "repl_loop" => (calls' = <<>> /\ pc' = "repl_await")
C19_Sequence ==
    /\ pc = "repl_await" => pc' \in {"repl_await", "repl_dispatch", "repl_except"}
    /\ pc = "repl_dispatch" => pc' \in {"repl_render", "repl_except"}
    /\ pc = "repl_render" => pc' \in {"repl_loop", "repl_except"}
    /\ (pc' = "repl_await" /\ pc # "repl_await") => pc = "repl_loop"
    /\ cmd_line' # cmd_line => pc \in {"main_182", "repl_loop", "repl_await"}
C19_SameSessionSamePrompt ==
    /\ session' = session
    /\ pc # "repl_get_prompt" => prompt_msg' = prompt_msg
    /\ (pc = "repl_render" /\ fault = "ConnectionError" /\ raised' = "none") =>
           pc' = "repl_loop"
C19_AtRead ==
    pc = "repl_await" =>
        /\ prompt_msg # None
        /\ session # None
        /\ ENABLED ReplRead
C19_SequentialCalls ==
    /\ []C19_AtRead
    /\ [][C19_Calls /\ C19_Sequence /\ C19_SameSessionSamePrompt]_vars
    /\ (pc = "repl_loop" /\ fault = "ConnectionError") ~> (pc = "repl_await")

\* A call failed with a connection failure; it was issued once and the
\* console is back at the top of the loop with its prompt.
C19_Witness ==
    /\ pc = "repl_loop"
    /\ fault = "ConnectionError"
    /\ cmd_line = <<"a">>
    /\ calls = <<RunCmd(<<"a">>, <<>>)>>
    /\ prompt_msg = Some(<<"o", "k", ">">>)
    /\ out = <<PrintLine("ERROR: {0}", 0, <<>>, "ConnectionError")>>

----------------------------------------------------------------------------
\* Properties of explicit credentials (checked under SpecCred).

\* C20: with --user and --password both given, a resolution reads and
\* writes no keyring entry, prompts for nothing and prints no line, leaves
\* the keyring as it was, and opens the session with the given pair; and in
\* every resolution a step writes the keyring only for a value not given by
\* its flag, and what it writes is what was entered at that step's prompt.
C20_BothGiven ==
    (Resolved /\ opt_user # None /\ opt_password # None) =>
        /\ kr_ops = <<>>
        /\ prompts = <<>>
        /\ info = <<>>
        /\ user = opt_user
        /\ password = opt_password
        /\ session # None =>
               session[1] = [host |-> host, user |-> opt_user[1],
                             password |-> opt_password[1]]
C20_Frame ==
    (opt_user # None /\ opt_password # None /\ mpc # "docopt") => keyring' = keyring
C20_WritesEnteredOnly ==
    (\/ keyring' # keyring
     \/ (Len(kr_ops') > Len(kr_ops) /\ kr_ops'[Len(kr_ops')].op = "set")) =>
        /\ mpc = "resolve_user" => opt_user = None
        /\ mpc = "resolve_password" => opt_password = None
        /\ mpc \in {"resolve_user", "resolve_password"}
        /\ Len(prompts') = Len(prompts) + 1
        /\ kr_ops'[Len(kr_ops')].op = "set"
        /\ kr_ops'[Len(kr_ops')].value = prompts'[Len(prompts')].entered
C20_ExplicitCredentialsBypassStore ==
    /\ []C20_BothGiven
    /\ [][C20_Frame /\ C20_WritesEnteredOnly]_vars

\* Second invocation, both flags given, over a keyring that holds values
\* from the first: nothing was read, asked or printed.
C20_Witness ==
    /\ mpc = "console"
    /\ invocation = 2
    /\ opt_user = Some("alice")
    /\ opt_password = Some("s3cret")
    /\ keyring[<<service_name(host), DEFAULT_USER_KEY>>] # None
    /\ kr_ops = <<>>
    /\ prompts = <<>>
    /\ info = <<>>
    /\ session = Some([host |-> host, user |-> "alice", password |-> "s3cret"])

====
